---- MODULE Spec2Model ----
(***************************************************************************)
(* Product API with a Redis cache-aside layer.                             *)
(*                                                                         *)
(* The durable store (SQLAlchemy session over the products table), the     *)
(* cache store (Redis keys product:<id> with an expiry) and the four       *)
(* request handlers of src/api/products.py.  Every handler is cut at its   *)
(* store and cache calls: one step of a request is one such call together  *)
(* with the local computation that follows it.                             *)
(***************************************************************************)
EXTENDS Integers, Sequences, FiniteSets, TLC

\* ------------------------------------------------------------------ bounds
MaxIds == 2            \* identifiers uuid4 can hand out / clients can ask for
NumProcs == 2          \* concurrent request handlers
MaxRequests == 4       \* requests started in one behaviour
cache_ttl_seconds == 2 \* Settings.cache_ttl_seconds, in clock ticks
MaxUuids == 6          \* identifiers uuid4 can hand out to rows at startup
MaxStartups == 3       \* times the application is started on one store

Ids == 1..MaxIds
Procs == 1..NumProcs
Uuids == 1..MaxUuids

\* ------------------------------------------------------------- data model
\* Validated field values (schemas/product.py); name and description are
\* kept to one value each, price and stock_quantity vary.
Names == {"X"}
Descriptions == {"d"}
Prices == {10, 12}
Stocks == {5, 7}

\* Python's None, as returned by db.get and by the cache layer on a miss.
None == [none |-> TRUE]

\* models/product.py: a row of the products table.
Product == [id : Ids, name : Names, description : Descriptions,
            price : Prices, stock_quantity : Stocks]

\* schemas/product.py ProductCreate: all four fields, validated.
ProductCreate == [name : Names, description : Descriptions,
                  price : Prices, stock_quantity : Stocks]

\* schemas/product.py ProductUpdate after validation.  val holds the fields
\* set to a value, null the fields sent as an explicit JSON null (allowed by
\* the "| None" types); every other field is unset.
\* model_dump(exclude_unset=True) has the keys DOMAIN val \cup null.
ProductUpdate ==
    { [val |-> << >>, null |-> {}],
      [val |-> [price |-> 12], null |-> {}],
      [val |-> [price |-> 10, stock_quantity |-> 7], null |-> {}],
      [val |-> << >>, null |-> {"price"}] }

NoPayload == [val |-> << >>, null |-> {}]

\* ProductUpdate.model_dump(exclude_unset=True): the keys that were sent.
model_dump_keys(payload) == DOMAIN payload.val \cup payload.null

\* ProductResponse.model_validate(product): the five attributes of the row.
ProductResponse(product) ==
    [id |-> product.id, name |-> product.name,
     description |-> product.description, price |-> product.price,
     stock_quantity |-> product.stock_quantity]

\* ProductResponse.model_dump_json(): the JSON text, as the sequence of its
\* five members in declaration order.
model_dump_json(product) ==
    <<product.id, product.name, product.description, product.price,
      product.stock_quantity>>

\* json.loads followed by ProductResponse(**data): the text parses to a
\* response only when it is a JSON object with the five typed members;
\* anything else raises (JSONDecodeError, ValidationError, TypeError).
json_parses(text) == Len(text) = 5

json_loads(text) ==
    [id |-> text[1], name |-> text[2], description |-> text[3],
     price |-> text[4], stock_quantity |-> text[5]]

\* Cache texts no handler writes: an empty value and a non-JSON value.
Malformed == { << >>, <<"garbage">> }

\* A Redis key with its value and remaining time to live; Absent: no key.
Absent == [absent |-> TRUE]
CacheEntry(text, ttl) == [val |-> text, ttl |-> ttl]


\* ------------------------------------------------------------ cache layer
\* Each operation takes the cache store, and ok: whether the Redis call it
\* makes succeeds (FALSE: the client raises).  The result says whether an
\* exception leaves the operation (raised) besides what it returns.

\* get_product_from_cache with its try/except left out: a failed Redis get
\* or an entry that does not parse raises to the caller.
get_product_from_cache_unguarded(cache, product_id, ok) ==
    IF ~ok
    THEN [raised |-> TRUE, value |-> None]
    ELSE IF cache[product_id] = Absent \/ cache[product_id].val = << >>
    THEN [raised |-> FALSE, value |-> None]
    ELSE IF ~json_parses(cache[product_id].val)
    THEN [raised |-> TRUE, value |-> None]
    ELSE [raised |-> FALSE, value |-> json_loads(cache[product_id].val)]

\* ProductCacheService.get_product_from_cache
get_product_from_cache(cache, product_id, ok) ==
    IF ~ok
    THEN [raised |-> FALSE, value |-> None]           \* except: return None
    ELSE IF cache[product_id] = Absent \/ cache[product_id].val = << >>
    THEN [raised |-> FALSE, value |-> None]           \* if not cached_json
    ELSE IF ~json_parses(cache[product_id].val)
    THEN [raised |-> FALSE, value |-> None]           \* except: return None
    ELSE [raised |-> FALSE, value |-> json_loads(cache[product_id].val)]

\* set_product_in_cache that passes twice the configured time to live.
set_product_in_cache_double_ttl(cache, product, ok) ==
    IF ~ok
    THEN [raised |-> FALSE, cache |-> cache]
    ELSE [raised |-> FALSE,
          cache |-> [cache EXCEPT ![product.id] =
                        CacheEntry(model_dump_json(product),
                                   2 * cache_ttl_seconds)]]

\* ProductCacheService.set_product_in_cache
set_product_in_cache(cache, product, ok) ==
    IF ~ok
    THEN [raised |-> FALSE, cache |-> cache]          \* except: log, go on
    ELSE [raised |-> FALSE,
          cache |-> [cache EXCEPT ![product.id] =
                        CacheEntry(model_dump_json(product), cache_ttl_seconds)]]

\* invalidate_product_cache that deletes nothing.
invalidate_product_cache_skipped(cache, product_id, ok) ==
    [raised |-> FALSE, cache |-> cache]

\* invalidate_product_cache that deletes every product key instead of the
\* one of product_id.
invalidate_product_cache_all_keys(cache, product_id, ok) ==
    IF ~ok
    THEN [raised |-> FALSE, cache |-> cache]
    ELSE [raised |-> FALSE, cache |-> [i \in DOMAIN cache |-> Absent]]

\* ProductCacheService.invalidate_product_cache
invalidate_product_cache(cache, product_id, ok) ==
    IF ~ok
    THEN [raised |-> FALSE, cache |-> cache]          \* except: log, go on
    ELSE [raised |-> FALSE, cache |-> [cache EXCEPT ![product_id] = Absent]]

\* ------------------------------------------------------------- repository
\* ok: whether the store accepts the commit (FALSE: commit raises and the
\* session rolls back).

\* create_product: INSERT the row under the generated id, commit, refresh.
\* A primary key already present makes the INSERT raise IntegrityError.
create_product(db, id, payload, ok) ==
    IF ~ok \/ db[id] # None
    THEN [raised |-> TRUE, db |-> db, product |-> None]
    ELSE LET product == [id |-> id, name |-> payload.name,
                         description |-> payload.description,
                         price |-> payload.price,
                         stock_quantity |-> payload.stock_quantity]
         IN [raised |-> FALSE, db |-> [db EXCEPT ![id] = product],
             product |-> product]

\* get_product_by_id
get_product_by_id(db, product_id) == db[product_id]

\* The attributes setattr leaves with a net change against the loaded row:
\* only these are written by the UPDATE the flush emits.
changed_fields(product, payload) ==
    payload.null \cup
    {f \in DOMAIN payload.val \ payload.null : payload.val[f] # product[f]}

\* The row with the given payload fields written over it.
merge_fields(row, payload, fields) ==
    [f \in DOMAIN row |-> IF f \in fields THEN payload.val[f] ELSE row[f]]

\* update_product: setattr every sent field on the loaded object, commit
\* (UPDATE ... SET <changed columns> WHERE id = ?), refresh (re-SELECT).
\*   - the row was deleted meanwhile: the UPDATE matches no row
\*     (StaleDataError), or with nothing to write the refresh finds no row
\*     (InvalidRequestError);
\*   - a column set to NULL violates nullable=False (IntegrityError).
update_product(db, product, payload, ok) ==
    LET changed == changed_fields(product, payload)
        row == db[product.id]
    IN IF ~ok \/ row = None \/ changed \cap payload.null # {}
       THEN [raised |-> TRUE, db |-> db, product |-> None]
       ELSE LET merged == merge_fields(row, payload, changed)
            IN [raised |-> FALSE, db |-> [db EXCEPT ![product.id] = merged],
                product |-> merged]

\* delete_product: DELETE ... WHERE id = ?, commit.  A row already gone is
\* only warned about (confirm_deleted_rows), not raised.
delete_product(db, product, ok) ==
    IF ~ok
    THEN [raised |-> TRUE, db |-> db]
    ELSE [raised |-> FALSE, db |-> [db EXCEPT ![product.id] = None]]

\* The products table as a whole: uuid -> row, or None.
EmptyTable == [u \in Uuids |-> None]

\* count_products: the number of rows.
count_products(t) == Cardinality({u \in Uuids : t[u] # None})

\* seed_products' sample_products, prices in cents.
sample_products ==
    << [name |-> "Wireless Mouse",
        description |-> "Ergonomic 2.4GHz wireless mouse",
        price |-> 2499, stock_quantity |-> 120],
       [name |-> "Mechanical Keyboard",
        description |-> "RGB backlit mechanical keyboard",
        price |-> 7950, stock_quantity |-> 75],
       [name |-> "USB-C Hub",
        description |-> "7-in-1 USB-C hub for laptops",
        price |-> 3900, stock_quantity |-> 200] >>

\* The table with the samples added, sample k under identifier ids[k].
add_all(t, ids) ==
    [u \in Uuids |->
        IF \E k \in DOMAIN sample_products : ids[k] = u
        THEN LET k == CHOOSE k \in DOMAIN sample_products : ids[k] = u
             IN [id |-> u, name |-> sample_products[k].name,
                 description |-> sample_products[k].description,
                 price |-> sample_products[k].price,
                 stock_quantity |-> sample_products[k].stock_quantity]
        ELSE t[u]]

\* seed_products that adds the samples without looking at the row count.
seed_products_unconditional(t, ids) == add_all(t, ids)

\* seed_products: nothing when the table has a row; otherwise the samples,
\* under the identifiers ids that uuid4 draws for them, committed together.
seed_products(t, ids) ==
    IF count_products(t) > 0 THEN t ELSE add_all(t, ids)

\* ------------------------------------------------------- request handlers
\* A request r: its operation and arguments, the place it has reached
\* (pc), the row it loaded (product) and, once done, its outcome.
\*   status: the HTTP status; outcome: success, NotFound, InvalidRequest,
\*   NotPersisted (the store raised) or CacheUnavailable (the cache layer
\*   raised); body: the returned record, or None.
Idle == [op |-> "none", id |-> 0, payload |-> NoPayload, pc |-> "idle",
         product |-> None, status |-> 0, outcome |-> "none", body |-> None]

NewRequest(op, id, payload, pc) ==
    [op |-> op, id |-> id, payload |-> payload, pc |-> pc,
     product |-> None, status |-> 0, outcome |-> "pending", body |-> None]

Respond(r, status, outcome, body) ==
    [r EXCEPT !.pc = "done", !.status = status, !.outcome = outcome,
              !.body = body]

\* An exception that no handler catches: FastAPI answers 500.
ServerError(r, outcome) == Respond(r, 500, outcome, None)

\* The state a step leaves: the store, the cache and the request.
After(db, cache, r) == [db |-> db, cache |-> cache, r |-> r]

\* create_product_endpoint that writes the new record to the cache instead
\* of invalidating its key.
create_product_endpoint_populate(db, cache, r, ok) ==
    IF r.pc = "commit"
    THEN LET c == create_product(db, r.id, r.payload, ok)
         IN IF c.raised
            THEN After(db, cache, ServerError(r, "NotPersisted"))
            ELSE After(c.db, cache,
                       [r EXCEPT !.pc = "invalidate", !.product = c.product])
    ELSE LET response == ProductResponse(r.product)
         IN After(db, set_product_in_cache(cache, response, ok).cache,
                  Respond(r, 201, "success", response))

\* create_product_endpoint
create_product_endpoint(db, cache, r, ok) ==
    IF r.pc = "commit"
    THEN LET c == create_product(db, r.id, r.payload, ok)
         IN IF c.raised
            THEN After(db, cache, ServerError(r, "NotPersisted"))
            ELSE After(c.db, cache,
                       [r EXCEPT !.pc = "invalidate", !.product = c.product])
    ELSE LET response == ProductResponse(r.product)
             i == invalidate_product_cache(cache, response.id, ok)
         IN IF i.raised
            THEN After(db, i.cache, ServerError(r, "CacheUnavailable"))
            ELSE After(db, i.cache, Respond(r, 201, "success", response))

\* get_product_endpoint that writes the record back on a cache hit, which
\* restarts the entry's time to live.
get_product_endpoint_refresh_on_hit(db, cache, r, ok) ==
    IF r.pc = "cache_get"
    THEN LET g == get_product_from_cache(cache, r.id, ok)
         IN IF g.value # None
            THEN After(db, set_product_in_cache(cache, g.value, ok).cache,
                       Respond(r, 200, "success", g.value))
            ELSE After(db, cache, [r EXCEPT !.pc = "db_get"])
    ELSE IF r.pc = "db_get"
    THEN LET product == get_product_by_id(db, r.id)
         IN IF product = None
            THEN After(db, cache, Respond(r, 404, "NotFound", None))
            ELSE After(db, cache,
                       [r EXCEPT !.pc = "cache_set", !.product = product])
    ELSE LET response == ProductResponse(r.product)
         IN After(db, set_product_in_cache(cache, response, ok).cache,
                  Respond(r, 200, "success", response))

\* get_product_endpoint that returns the row of a miss without caching it.
get_product_endpoint_no_populate(db, cache, r, ok) ==
    IF r.pc = "cache_get"
    THEN LET g == get_product_from_cache(cache, r.id, ok)
         IN IF g.value # None
            THEN After(db, cache, Respond(r, 200, "success", g.value))
            ELSE After(db, cache, [r EXCEPT !.pc = "db_get"])
    ELSE IF r.pc = "db_get"
    THEN LET product == get_product_by_id(db, r.id)
         IN IF product = None
            THEN After(db, cache, Respond(r, 404, "NotFound", None))
            ELSE After(db, cache,
                       [r EXCEPT !.pc = "cache_set", !.product = product])
    ELSE After(db, cache,
               Respond(r, 200, "success", ProductResponse(r.product)))

\* get_product_endpoint
get_product_endpoint(db, cache, r, ok) ==
    IF r.pc = "cache_get"
    THEN LET g == get_product_from_cache(cache, r.id, ok)
         IN IF g.raised
            THEN After(db, cache, ServerError(r, "CacheUnavailable"))
            ELSE IF g.value # None
            THEN After(db, cache, Respond(r, 200, "success", g.value))
            ELSE After(db, cache, [r EXCEPT !.pc = "db_get"])
    ELSE IF r.pc = "db_get"
    THEN LET product == get_product_by_id(db, r.id)
         IN IF product = None
            THEN After(db, cache, Respond(r, 404, "NotFound", None))
            ELSE After(db, cache,
                       [r EXCEPT !.pc = "cache_set", !.product = product])
    ELSE LET response == ProductResponse(r.product)
             s == set_product_in_cache(cache, response, ok)
         IN IF s.raised
            THEN After(db, s.cache, ServerError(r, "CacheUnavailable"))
            ELSE After(db, s.cache, Respond(r, 200, "success", response))

\* update_product_endpoint that returns after the commit without
\* invalidating the cache entry.
update_product_endpoint_no_invalidate(db, cache, r, ok) ==
    IF r.pc = "db_get"
    THEN IF model_dump_keys(r.payload) = {}
         THEN After(db, cache, Respond(r, 400, "InvalidRequest", None))
         ELSE LET product == get_product_by_id(db, r.id)
              IN IF product = None
                 THEN After(db, cache, Respond(r, 404, "NotFound", None))
                 ELSE After(db, cache,
                            [r EXCEPT !.pc = "commit", !.product = product])
    ELSE LET u == update_product(db, r.product, r.payload, ok)
         IN IF u.raised
            THEN After(db, cache, ServerError(r, "NotPersisted"))
            ELSE After(u.db, cache,
                       Respond([r EXCEPT !.product = u.product], 200,
                               "success", ProductResponse(u.product)))

\* update_product_endpoint without the check for an empty payload.
update_product_endpoint_no_empty_check(db, cache, r, ok) ==
    IF r.pc = "db_get"
    THEN LET product == get_product_by_id(db, r.id)
         IN IF product = None
            THEN After(db, cache, Respond(r, 404, "NotFound", None))
            ELSE After(db, cache,
                       [r EXCEPT !.pc = "commit", !.product = product])
    ELSE IF r.pc = "commit"
    THEN LET u == update_product(db, r.product, r.payload, ok)
         IN IF u.raised
            THEN After(db, cache, ServerError(r, "NotPersisted"))
            ELSE After(u.db, cache,
                       [r EXCEPT !.pc = "invalidate", !.product = u.product])
    ELSE After(db, invalidate_product_cache(cache, r.id, ok).cache,
               Respond(r, 200, "success", ProductResponse(r.product)))

\* update_product_endpoint that invalidates the cache entry also when the
\* commit raised, before the error leaves the handler.
update_product_endpoint_invalidate_on_failure(db, cache, r, ok) ==
    IF r.pc = "db_get"
    THEN IF model_dump_keys(r.payload) = {}
         THEN After(db, cache, Respond(r, 400, "InvalidRequest", None))
         ELSE LET product == get_product_by_id(db, r.id)
              IN IF product = None
                 THEN After(db, cache, Respond(r, 404, "NotFound", None))
                 ELSE After(db, cache,
                            [r EXCEPT !.pc = "commit", !.product = product])
    ELSE IF r.pc = "commit"
    THEN LET u == update_product(db, r.product, r.payload, ok)
         IN IF u.raised
            THEN After(db, invalidate_product_cache(cache, r.id, TRUE).cache,
                       ServerError(r, "NotPersisted"))
            ELSE After(u.db, cache,
                       [r EXCEPT !.pc = "invalidate", !.product = u.product])
    ELSE After(db, invalidate_product_cache(cache, r.id, ok).cache,
               Respond(r, 200, "success", ProductResponse(r.product)))

\* update_product_endpoint that invalidates the cache entry before it
\* commits the update.
update_product_endpoint_invalidate_first(db, cache, r, ok) ==
    IF r.pc = "db_get"
    THEN IF model_dump_keys(r.payload) = {}
         THEN After(db, cache, Respond(r, 400, "InvalidRequest", None))
         ELSE LET product == get_product_by_id(db, r.id)
              IN IF product = None
                 THEN After(db, cache, Respond(r, 404, "NotFound", None))
                 ELSE After(db, cache,
                            [r EXCEPT !.pc = "invalidate", !.product = product])
    ELSE IF r.pc = "invalidate"
    THEN After(db, invalidate_product_cache(cache, r.id, ok).cache,
               [r EXCEPT !.pc = "commit"])
    ELSE LET u == update_product(db, r.product, r.payload, ok)
         IN IF u.raised
            THEN After(db, cache, ServerError(r, "NotPersisted"))
            ELSE After(u.db, cache,
                       Respond([r EXCEPT !.product = u.product], 200,
                               "success", ProductResponse(u.product)))

\* update_product_endpoint
update_product_endpoint(db, cache, r, ok) ==
    IF r.pc = "db_get"
    THEN IF model_dump_keys(r.payload) = {}
         THEN After(db, cache, Respond(r, 400, "InvalidRequest", None))
         ELSE LET product == get_product_by_id(db, r.id)
              IN IF product = None
                 THEN After(db, cache, Respond(r, 404, "NotFound", None))
                 ELSE After(db, cache,
                            [r EXCEPT !.pc = "commit", !.product = product])
    ELSE IF r.pc = "commit"
    THEN LET u == update_product(db, r.product, r.payload, ok)
         IN IF u.raised
            THEN After(db, cache, ServerError(r, "NotPersisted"))
            ELSE After(u.db, cache,
                       [r EXCEPT !.pc = "invalidate", !.product = u.product])
    ELSE LET i == invalidate_product_cache(cache, r.id, ok)
         IN IF i.raised
            THEN After(db, i.cache, ServerError(r, "CacheUnavailable"))
            ELSE After(db, i.cache,
                       Respond(r, 200, "success", ProductResponse(r.product)))

\* delete_product_endpoint that returns after the commit without
\* invalidating the cache entry.
delete_product_endpoint_no_invalidate(db, cache, r, ok) ==
    IF r.pc = "db_get"
    THEN LET product == get_product_by_id(db, r.id)
         IN IF product = None
            THEN After(db, cache, Respond(r, 404, "NotFound", None))
            ELSE After(db, cache,
                       [r EXCEPT !.pc = "commit", !.product = product])
    ELSE LET d == delete_product(db, r.product, ok)
         IN IF d.raised
            THEN After(db, cache, ServerError(r, "NotPersisted"))
            ELSE After(d.db, cache, Respond(r, 204, "success", None))

\* delete_product_endpoint that treats a missing row as already deleted:
\* it invalidates and answers 204.
delete_product_endpoint_idempotent(db, cache, r, ok) ==
    IF r.pc = "db_get"
    THEN LET product == get_product_by_id(db, r.id)
         IN IF product = None
            THEN After(db, invalidate_product_cache(cache, r.id, ok).cache,
                       Respond(r, 204, "success", None))
            ELSE After(db, cache,
                       [r EXCEPT !.pc = "commit", !.product = product])
    ELSE IF r.pc = "commit"
    THEN LET d == delete_product(db, r.product, ok)
         IN IF d.raised
            THEN After(db, cache, ServerError(r, "NotPersisted"))
            ELSE After(d.db, cache, [r EXCEPT !.pc = "invalidate"])
    ELSE After(db, invalidate_product_cache(cache, r.id, ok).cache,
               Respond(r, 204, "success", None))

\* delete_product_endpoint
delete_product_endpoint(db, cache, r, ok) ==
    IF r.pc = "db_get"
    THEN LET product == get_product_by_id(db, r.id)
         IN IF product = None
            THEN After(db, cache, Respond(r, 404, "NotFound", None))
            ELSE After(db, cache,
                       [r EXCEPT !.pc = "commit", !.product = product])
    ELSE IF r.pc = "commit"
    THEN LET d == delete_product(db, r.product, ok)
         IN IF d.raised
            THEN After(db, cache, ServerError(r, "NotPersisted"))
            ELSE After(d.db, cache, [r EXCEPT !.pc = "invalidate"])
    ELSE LET i == invalidate_product_cache(cache, r.id, ok)
         IN IF i.raised
            THEN After(db, i.cache, ServerError(r, "CacheUnavailable"))
            ELSE After(db, i.cache, Respond(r, 204, "success", None))

\* The router: one step of request r.
Handle(db, cache, r, ok) ==
    CASE r.op = "create" -> create_product_endpoint(db, cache, r, ok)
      [] r.op = "read"   -> get_product_endpoint(db, cache, r, ok)
      [] r.op = "update" -> update_product_endpoint(db, cache, r, ok)
      [] r.op = "delete" -> delete_product_endpoint(db, cache, r, ok)

\* The external call the next step of r makes: a Redis get, set or delete,
\* a store read, or a store commit.
CallKind(r) ==
    CASE r.pc = "cache_get"  -> "get"
      [] r.pc = "cache_set"  -> "set"
      [] r.pc = "invalidate" -> "delete"
      [] r.pc = "db_get"     -> "select"
      [] r.pc = "commit"     -> "commit"

InFlight(r) == r.pc \notin {"idle", "done"}


\* ------------------------------------------------------------------ state
VARIABLES
    db,       \* the products table: id -> row, or None
    cache,    \* Redis: id -> entry of key product:<id>, or Absent
    used,     \* the identifiers uuid4 has handed out
    req,      \* per handler: the request it is serving
    nreq,     \* requests started so far
    \* history, read by the properties only
    dbver,    \* id -> how many commits have changed the row of id
    cver,     \* id -> the dbver of the content the cache entry was read at
    donever,  \* id -> the highest dbver written by an Update that returned
    deleted,  \* ids whose Delete has returned success
    leftover, \* ids whose entry survived a failed invalidation
    lastw,    \* id -> what the last returned mutation of id left (LastWrite)
    aux,      \* per handler: what its request saw (Seen)
    twin,     \* the same deployment on a Redis that always raises (Twin)
    held,     \* id -> every row the table has held under the id
    unswept,  \* ids with a committed write whose handler stopped before its
              \* invalidation, and no invalidation attempted since
    expired,  \* ids whose entry, left by a failed invalidation, has run out
    \* application startup
    table,    \* the products table create_app opens: uuid -> row, or None
    started   \* how many times create_app has run on that table

vars == <<db, cache, used, req, nreq, dbver, cver, donever, deleted,
          leftover, lastw, aux, twin, held, unswept, expired, table, started>>

\* What a request has seen: floor, the donever of its id when it started;
\* after_delete, whether a Delete of its id had returned by then; pver, the
\* dbver of the row it loaded or wrote; rver, the dbver of the content it
\* returned; source, where that content came from; call_ok, whether its
\* last store or cache call succeeded.
Seen(floor, after_delete) ==
    [floor |-> floor, after_delete |-> after_delete, pver |-> 0, rver |-> 0,
     source |-> "none", call_ok |-> TRUE]

\* What the last returned mutation of an id left behind: op, the mutation;
\* body, the record it persisted (None after a Delete or before any);
\* had_entry, whether a cache entry for the id existed when the mutation
\* reached its invalidation.
LastWrite(op, body, had_entry) ==
    [op |-> op, body |-> body, had_entry |-> had_entry]

\* The twin deployment (conftest.py's BrokenRedis client): its store, its
\* cache, the response to the last request served on both deployments, and
\* whether the healthy deployment served that request from its cache.
Twin(tdb, tcache, r, hit) == [db |-> tdb, cache |-> tcache, r |-> r, hit |-> hit]

\* The store a deployment starts on: the table is never empty once the
\* application is constructed (seed_products fills an empty one).
InitialStore ==
    [i \in Ids |-> IF i = 1
                   THEN [id |-> 1, name |-> "X", description |-> "d",
                         price |-> 10, stock_quantity |-> 5]
                   ELSE None]

\* The identifiers uuid4 can draw for the samples: distinct, and not in use.
Draws(t) ==
    {ids \in [DOMAIN sample_products -> {u \in Uuids : t[u] = None}] :
        \A j, k \in DOMAIN sample_products : j # k => ids[j] # ids[k]}

\* The stores create_app can be started on: a new database file (no row), or
\* one that holds rows already.
StoresAtStartup ==
    {t \in [Uuids -> {None} \cup
                    [id : Uuids, name : Names, description : Descriptions,
                     price : {10}, stock_quantity : {5}]] :
        /\ \A u \in Uuids : t[u] # None => t[u].id = u
        /\ count_products(t) + Len(sample_products) <= MaxUuids}

\* The service once create_app has returned, before its first request.
InitService ==
    /\ db = InitialStore
    /\ cache = [i \in Ids |-> Absent]
    /\ used = {i \in Ids : InitialStore[i] # None}
    /\ req = [p \in Procs |-> Idle]
    /\ nreq = 0
    /\ dbver = [i \in Ids |-> 0]
    /\ cver = [i \in Ids |-> 0]
    /\ donever = [i \in Ids |-> 0]
    /\ deleted = {}
    /\ leftover = {}
    /\ lastw = [i \in Ids |-> LastWrite("none", None, FALSE)]
    /\ aux = [p \in Procs |-> Seen(0, FALSE)]
    /\ twin = Twin(InitialStore, [i \in Ids |-> Absent], Idle, FALSE)
    /\ held = [i \in Ids |-> {InitialStore[i]} \ {None}]
    /\ unswept = {}
    /\ expired = {}

\* create_app has run once, on a new database file.
Init ==
    /\ InitService
    /\ table \in {seed_products(EmptyTable, ids) :
                      ids \in {[k \in DOMAIN sample_products |-> k]}}
    /\ started = 1

\* ---------------------------------------------------------------- actions
\* The transport layer hands a validated request to a free handler.  Handlers
\* are interchangeable, so the lowest free one takes the request.
Accept(p, r) ==
    /\ ~InFlight(req[p])
    /\ \A q \in Procs : q < p => InFlight(req[q])
    /\ nreq < MaxRequests
    /\ nreq' = nreq + 1
    /\ req' = [req EXCEPT ![p] = r]
    /\ aux' = [aux EXCEPT ![p] = Seen(donever[r.id], r.id \in deleted)]
    /\ UNCHANGED <<db, cache, dbver, cver, donever, deleted, leftover, lastw,
                   twin, held, unswept, expired, table, started>>

\* POST /products: uuid4 draws an identifier never drawn before.
StartCreate(p) ==
    \E id \in Ids \ used, payload \in ProductCreate :
        /\ Accept(p, NewRequest("create", id, payload, "commit"))
        /\ used' = used \cup {id}

\* GET /products/{product_id}
StartRead(p) ==
    \E id \in Ids :
        /\ Accept(p, NewRequest("read", id, NoPayload, "cache_get"))
        /\ UNCHANGED used

\* PUT /products/{product_id}
StartUpdate(p) ==
    \E id \in Ids, payload \in ProductUpdate :
        /\ Accept(p, NewRequest("update", id, payload, "db_get"))
        /\ UNCHANGED used

\* DELETE /products/{product_id}
StartDelete(p) ==
    \E id \in Ids :
        /\ Accept(p, NewRequest("delete", id, NoPayload, "db_get"))
        /\ UNCHANGED used

Start(p) == StartCreate(p) \/ StartRead(p) \/ StartUpdate(p) \/ StartDelete(p)

\* The outcomes the call of the next step can have, when the calls of the
\* kinds in faults may fail.
Outcomes(r, faults) == IF CallKind(r) \in faults THEN {TRUE, FALSE} ELSE {TRUE}

Max(a, b) == IF a > b THEN a ELSE b

\* One step of the request of handler p: the handler's code up to and
\* including its next store or cache call.
StepF(p, faults) ==
    /\ InFlight(req[p])
    /\ \E ok \in Outcomes(req[p], faults) :
        LET r == req[p]
            id == r.id
            n == Handle(db, cache, r, ok)
            wrote == n.db # db
            ver == IF wrote THEN dbver[id] + 1 ELSE dbver[id]
            returned == n.r.pc = "done" /\ n.r.outcome = "success"
        IN
        /\ db' = n.db
        /\ cache' = n.cache
        /\ req' = [req EXCEPT ![p] = n.r]
        /\ dbver' = [dbver EXCEPT ![id] = ver]
        /\ cver' = [cver EXCEPT ![id] =
                       IF n.cache[id] = Absent THEN 0
                       ELSE IF r.pc = "cache_set" /\ ok THEN aux[p].pver
                       ELSE @]
        /\ aux' = [aux EXCEPT ![p] =
                       CASE r.pc \in {"db_get", "commit"} ->
                                [@ EXCEPT !.pver = ver, !.call_ok = ok]
                         [] r.pc = "cache_get" /\ n.r.pc = "done" ->
                                [@ EXCEPT !.rver = cver[id], !.source = "cache",
                                          !.call_ok = ok]
                         [] r.pc = "cache_set" ->
                                [@ EXCEPT !.rver = aux[p].pver, !.source = "db",
                                          !.call_ok = ok]
                         [] OTHER -> [@ EXCEPT !.call_ok = ok]]
        /\ donever' = [donever EXCEPT ![id] =
                          IF returned /\ r.op = "update"
                          THEN Max(@, aux[p].pver) ELSE @]
        /\ deleted' = IF returned /\ r.op = "delete"
                      THEN deleted \cup {id} ELSE deleted
        /\ leftover' = IF r.pc = "invalidate" /\ n.cache[id] # Absent
                       THEN leftover \cup {id}
                       ELSE IF n.cache[id] = Absent THEN leftover \ {id}
                       ELSE leftover
        /\ lastw' = [lastw EXCEPT ![id] =
                        IF returned /\ r.op \in {"create", "update", "delete"}
                        THEN LastWrite(r.op, n.r.body, cache[id] # Absent)
                        ELSE @]
        /\ held' = [held EXCEPT ![id] = @ \cup ({n.db[id]} \ {None})]
        /\ unswept' = IF r.pc = "invalidate" THEN unswept \ {id} ELSE unswept
        /\ UNCHANGED <<used, nreq, twin, expired, table, started>>

Step(p) == StepF(p, {})

\* One second passes: every entry is a second nearer its expiry, and Redis
\* drops the entries whose time is up.
Expire(c) ==
    [i \in DOMAIN c |-> IF c[i] = Absent \/ c[i].ttl = 1 THEN Absent
                        ELSE [c[i] EXCEPT !.ttl = @ - 1]]

Tick ==
    /\ \E i \in Ids : cache[i] # Absent \/ twin.cache[i] # Absent
    /\ cache' = Expire(cache)
    /\ twin' = [twin EXCEPT !.cache = Expire(@)]
    /\ cver' = [i \in Ids |-> IF cache'[i] = Absent THEN 0 ELSE cver[i]]
    /\ leftover' = {i \in leftover : cache'[i] # Absent}
    /\ expired' = expired \cup {i \in leftover : cache'[i] = Absent}
    /\ UNCHANGED <<db, used, req, nreq, dbver, donever, deleted, lastw, aux,
                   held, unswept, table, started>>

\* Requests served concurrently by independent handlers, healthy cache.
Next == (\E p \in Procs : Start(p) \/ Step(p)) \/ Tick

Spec == Init /\ [][Next]_vars


\* Requests served one at a time (a request is accepted only when no other
\* is in flight), healthy cache.
Quiet == \A q \in Procs : ~InFlight(req[q])

StartQuiet(p) == Quiet /\ Start(p)

NextSeq == (\E p \in Procs : StartQuiet(p) \/ Step(p)) \/ Tick

SpecSeq == Init /\ [][NextSeq]_vars

\* Requests served one at a time while Redis deletes may fail (gets and
\* sets work).
NextDelFault ==
    (\E p \in Procs : StartQuiet(p) \/ StepF(p, {"delete"})) \/ Tick

SpecDelFault == Init /\ [][NextDelFault]_vars

\* Requests served one at a time while commits may fail (Redis works).
NextCommitFault ==
    (\E p \in Procs : StartQuiet(p) \/ StepF(p, {"commit"})) \/ Tick

SpecCommitFault == Init /\ [][NextCommitFault]_vars

\* Requests served concurrently while every Redis call may fail on its own.
CacheFaults == {"get", "set", "delete"}

NextCacheFault ==
    (\E p \in Procs : Start(p) \/ StepF(p, CacheFaults)) \/ Tick

SpecCacheFault == Init /\ [][NextCacheFault]_vars

\* The worker serving an Update or a Delete stops after the repository call
\* has committed and before invalidate_product_cache is called (the process
\* is terminated, the request is abandoned).  The handlers hold nothing that
\* would run later: no finally clause, no background task, no startup sweep.
Cancel(p) ==
    /\ req[p].op \in {"update", "delete"}
    /\ req[p].pc = "invalidate"
    /\ req' = [req EXCEPT ![p] = Respond(@, 0, "Cancelled", None)]
    /\ unswept' = unswept \cup {req[p].id}
    /\ UNCHANGED <<db, cache, used, nreq, dbver, cver, donever, deleted,
                   leftover, lastw, aux, twin, held, expired, table,
                   started>>

\* Requests served one at a time, healthy cache, workers may stop between
\* commit and invalidation.  A handler that is not stopped runs on (the
\* threadpool schedules every in-flight handler), and time passes.
NextCancel ==
    (\E p \in Procs : StartQuiet(p) \/ Step(p) \/ Cancel(p)) \/ Tick

SpecCancel ==
    /\ Init /\ [][NextCancel]_vars
    /\ \A p \in Procs : WF_vars(Step(p))
    /\ WF_vars(Tick)

\* Requests served one at a time while Redis deletes may fail; every handler
\* in flight runs on and Redis keeps counting the entries' time down.
SpecTTL ==
    /\ Init /\ [][NextDelFault]_vars
    /\ \A p \in Procs : WF_vars(StepF(p, {"delete"}))
    /\ WF_vars(Tick)

\* create_app: open the store, create the table if missing, seed it.
create_app ==
    /\ started < MaxStartups
    /\ \E ids \in Draws(table) : table' = seed_products(table, ids)
    /\ started' = started + 1
    /\ UNCHANGED <<db, cache, used, req, nreq, dbver, cver, donever, deleted,
                   leftover, lastw, aux, twin, held, unswept, expired>>

\* The application started again and again on one store, from the state
\* the store is in before the first start.
InitSeed ==
    /\ InitService
    /\ table \in StoresAtStartup
    /\ started = 0

SpecSeed == InitSeed /\ [][create_app]_vars

\* Another writer of the shared Redis leaves a value under a product key
\* that is no serialized record.  Only a lookup reads an entry, so the
\* value is written when a Read is about to look the key up.
Corrupt ==
    /\ \E p \in Procs, text \in Malformed :
           /\ req[p].pc = "cache_get"
           /\ IF cache[req[p].id] = Absent THEN TRUE
              ELSE json_parses(cache[req[p].id].val)
           /\ cache' = [cache EXCEPT ![req[p].id] =
                            CacheEntry(text, cache_ttl_seconds)]
    /\ cver' = cver
    /\ UNCHANGED <<db, used, req, nreq, dbver, donever, deleted, leftover,
                   lastw, aux, twin, held, unswept, expired, table,
                   started>>

\* Requests served one at a time while every Redis call and every commit
\* may fail on its own, and entries may be malformed.
AllFaults == {"get", "set", "delete", "commit"}

NextFault ==
    (\E p \in Procs : StartQuiet(p) \/ StepF(p, AllFaults))
    \/ Tick \/ Corrupt

SpecFault == Init /\ [][NextFault]_vars

\* The requests the transport layer can hand over: any validated payload,
\* any identifier, and for a Create an identifier uuid4 has not drawn.
Requests ==
    {NewRequest("create", id, payload, "commit") :
         id \in Ids \ used, payload \in ProductCreate}
    \cup {NewRequest("read", id, NoPayload, "cache_get") : id \in Ids}
    \cup {NewRequest("update", id, payload, "db_get") :
              id \in Ids, payload \in ProductUpdate}
    \cup {NewRequest("delete", id, NoPayload, "db_get") : id \in Ids}

\* A request run from acceptance to its response with no other request in
\* between; the calls of the kinds in faults all fail.
RECURSIVE Run(_, _, _, _)
Run(d, c, r, faults) ==
    IF r.pc = "done"
    THEN After(d, c, r)
    ELSE LET n == Handle(d, c, r, CallKind(r) \notin faults)
         IN Run(n.db, n.cache, n.r, faults)

\* The same request served on the deployment with a healthy Redis and on
\* its twin, whose Redis raises on every get, set and delete.
Serve ==
    /\ nreq < MaxRequests
    /\ \E r \in Requests :
        LET a == Run(db, cache, r, {})
            b == Run(twin.db, twin.cache, r, {"get", "set", "delete"})
            hit == r.op = "read"
                   /\ get_product_from_cache(cache, r.id, TRUE).value # None
        IN /\ db' = a.db
           /\ cache' = a.cache
           /\ req' = [req EXCEPT ![1] = a.r]
           /\ twin' = Twin(b.db, b.cache, b.r, hit)
           /\ used' = IF r.op = "create" THEN used \cup {r.id} ELSE used
           /\ nreq' = nreq + 1
    /\ UNCHANGED <<dbver, cver, donever, deleted, leftover, lastw, aux,
                   held, unswept, expired, table, started>>

NextPair == Serve \/ Tick

SpecPair == Init /\ [][NextPair]_vars

\* ------------------------------------------------------------- properties
ReadDone(p) == req[p].op = "read" /\ req[p].pc = "done"

\* C3 (Delete finality): once a Delete of an identifier has returned
\* success, every Read of that identifier that starts afterwards fails with
\* NotFound, also when Reads of it were in flight during the Delete.
C3_DeleteFinality ==
    \A p \in Procs :
        ReadDone(p) /\ aux[p].after_delete => req[p].outcome = "NotFound"

\* C4 (no stale read after a completed Update): a Read that starts after an
\* Update of its identifier has returned never returns content older than
\* what that Update persisted.
C4_NoStaleReadAfterUpdate ==
    \A p \in Procs :
        ReadDone(p) /\ req[p].outcome = "success"
            => aux[p].rver >= aux[p].floor


\* C2 (post-write read consistency): with requests served one at a time,
\* a Read of an identifier whose last returned mutation was a successful
\* Create or Update returns exactly the record that mutation persisted.
C2_PostWriteRead ==
    \A p \in Procs :
        ReadDone(p) /\ lastw[req[p].id].op \in {"create", "update"}
            => /\ req[p].outcome = "success"
               /\ req[p].body = lastw[req[p].id].body
               /\ db[req[p].id] # None
               /\ req[p].body = ProductResponse(db[req[p].id])

\* C2's case: a Read after an Update that changed the record while a cache
\* entry with the pre-update content was in the cache.
C2_Witness ==
    \E p \in Procs :
        /\ ReadDone(p) /\ req[p].outcome = "success"
        /\ lastw[req[p].id].op = "update"
        /\ lastw[req[p].id].had_entry
        /\ req[p].body.price = 12
        /\ req[p].body = lastw[req[p].id].body


\* C1 (cache transparency): every request of a sequence served one at a
\* time gets, from the deployment whose Redis always raises, the same
\* status, outcome and record as from the deployment with a healthy Redis.
C1_CacheTransparency ==
    /\ req[1].status = twin.r.status
    /\ req[1].outcome = twin.r.outcome
    /\ req[1].body = twin.r.body

\* C1's case: a Read the healthy deployment answers from its cache and the
\* twin from its store, after the record was updated.
C1_Witness ==
    /\ req[1].op = "read" /\ req[1].outcome = "success"
    /\ twin.hit
    /\ twin.r.outcome = "success"
    /\ twin.cache[req[1].id] = Absent
    /\ req[1].body.price = 12


\* A cache entry that holds a serialized record.
HoldsRecord(entry) == IF entry = Absent THEN FALSE ELSE json_parses(entry.val)

\* Response r of a Read agrees with store d: the Read failed with NotFound
\* and there is no row, or it returned the row.
MatchesStore(d, r) ==
    IF d[r.id] = None
    THEN r.outcome = "NotFound"
    ELSE r.outcome = "success" /\ r.body = ProductResponse(d[r.id])

\* C5, as claimed (failed invalidation is never a correctness violation):
\* with requests served one at a time and only Redis deletes failing, no
\* Read returns content that differs from the store's current state.
C5_ReadsMatchStore ==
    \A p \in Procs : ReadDone(p) => MatchesStore(db, req[p])

\* The handler of p takes a step.
Stepped(p) == InFlight(req[p]) /\ req'[p] # req[p]

\* C5, amended: a Read differs from the store's current state only by
\* returning the content of the cache entry a failed invalidation left
\* behind, while that entry is still in the cache; every Read that finds no
\* such entry returns the store's current state.
C5_StaleOnlyFromLeftover ==
    [][\A p \in Procs :
        Stepped(p) /\ req[p].op = "read" /\ req'[p].pc = "done" =>
            \/ MatchesStore(db', req'[p])
            \/ /\ req[p].pc = "cache_get"
               /\ req[p].id \in leftover
               /\ HoldsRecord(cache[req[p].id])
               /\ req'[p].body = json_loads(cache[req[p].id].val)]_vars

\* C5's case: after an Update whose invalidation failed, a Read returns the
\* pre-update record from the entry left behind.
C5_Witness ==
    \E p \in Procs :
        /\ ReadDone(p) /\ req[p].outcome = "success"
        /\ req[p].id \in leftover
        /\ aux[p].source = "cache"
        /\ lastw[req[p].id].op = "update"
        /\ db[req[p].id] # None
        /\ req[p].body # ProductResponse(db[req[p].id])

\* C6 (Read on a cache hit): when the lookup finds a record, the Read
\* returns it at once, without loading the row from the store, and leaves
\* the store and the cache, the entry's time to live included, as they are.
C6_ReadHit ==
    [][\A p \in Procs :
        Stepped(p) /\ req[p].pc = "cache_get"
                   /\ HoldsRecord(cache[req[p].id])
            => /\ req'[p].pc = "done"
               /\ req'[p].status = 200 /\ req'[p].outcome = "success"
               /\ req'[p].body = json_loads(cache[req[p].id].val)
               /\ req'[p].product = None
               /\ db' = db
               /\ cache' = cache]_vars

\* C6's case: a Read answered from an entry that is part of the way to its
\* expiry, for an identifier whose row is gone from the store.
C6_Witness ==
    \E p \in Procs :
        /\ ReadDone(p) /\ req[p].outcome = "success"
        /\ aux[p].source = "cache"
        /\ db[req[p].id] = None
        /\ cache[req[p].id] # Absent
        /\ cache[req[p].id].ttl < cache_ttl_seconds

\* C7 (Read on a cache miss): the Read loads the row from the store; with
\* no row it fails with NotFound and writes nothing to the cache; with a
\* row it returns it and leaves, under its identifier, an entry that is the
\* serialized returned record with the configured time to live.
C7_ReadMiss ==
    [][\A p \in Procs :
        Stepped(p) /\ req[p].op = "read" =>
            LET id == req[p].id IN
            /\ db' = db
            /\ req[p].pc = "cache_get" /\ ~HoldsRecord(cache[id])
                => req'[p].pc = "db_get" /\ cache' = cache
            /\ req[p].pc = "db_get" /\ db[id] = None
                => /\ req'[p].pc = "done"
                   /\ req'[p].status = 404 /\ req'[p].outcome = "NotFound"
                   /\ cache' = cache
            /\ req[p].pc = "db_get" /\ db[id] # None
                => /\ req'[p].pc = "cache_set"
                   /\ req'[p].product = db[id]
                   /\ cache' = cache
            /\ req[p].pc = "cache_set"
                => /\ req'[p].pc = "done"
                   /\ req'[p].status = 200 /\ req'[p].outcome = "success"
                   /\ req'[p].body = ProductResponse(req[p].product)
                   /\ cache'[id] = CacheEntry(model_dump_json(req'[p].body),
                                              cache_ttl_seconds)
                   /\ json_loads(cache'[id].val) = req'[p].body
                   /\ \A j \in Ids \ {id} : cache'[j] = cache[j]]_vars

\* C7's case: a Read that missed, found the row and populated the cache.
C7_Witness ==
    \E p \in Procs :
        /\ ReadDone(p) /\ req[p].outcome = "success"
        /\ aux[p].source = "db"
        /\ req[p].body = ProductResponse(req[p].product)
        /\ cache[req[p].id] =
               CacheEntry(model_dump_json(req[p].body), cache_ttl_seconds)


\* C8 (cache failures are fully absorbed): whichever Redis calls fail and
\* whatever an entry holds, no request ends in a cache-originated error;
\* a lookup that fails or finds no serialized record goes on to the store
\* as a miss, and a failed set or delete leaves the cache as it is while
\* the request still succeeds.
C8_CacheFailuresAbsorbed ==
    [][\A p \in Procs :
        Stepped(p) =>
            LET id == req[p].id
                failed == ~aux'[p].call_ok
            IN
            /\ req'[p].outcome \in {"pending", "success", "NotFound",
                                    "InvalidRequest", "NotPersisted"}
            /\ req'[p].outcome = "NotPersisted" => req[p].pc = "commit"
            /\ req[p].pc = "cache_get"
                    /\ (failed \/ ~HoldsRecord(cache[id]))
                => req'[p].pc = "db_get" /\ cache' = cache
            /\ req[p].pc \in {"cache_set", "invalidate"} /\ failed
                => /\ cache' = cache
                   /\ req'[p].pc = "done"
                   /\ req'[p].outcome = "success"]_vars

\* C8's case: a Read that found a malformed entry, fell back to the store,
\* and succeeded although its cache set failed too.
C8_Witness ==
    \E p \in Procs :
        /\ ReadDone(p) /\ req[p].outcome = "success"
        /\ aux[p].source = "db"
        /\ ~aux[p].call_ok
        /\ cache[req[p].id] # Absent
        /\ ~json_parses(cache[req[p].id].val)

\* C9 (empty Update): an Update whose payload has no field fails with
\* InvalidRequest at once, without loading the row, and leaves the store
\* and the cache as they are.
C9_EmptyUpdate ==
    [][\A p \in Procs :
        Stepped(p) /\ req[p].op = "update"
                   /\ model_dump_keys(req[p].payload) = {}
            => /\ req'[p].pc = "done"
               /\ req'[p].status = 400
               /\ req'[p].outcome = "InvalidRequest"
               /\ req'[p].product = None
               /\ db' = db
               /\ cache' = cache]_vars

\* C9's case: an empty Update of a record that is in the store and cached.
C9_Witness ==
    \E p \in Procs :
        /\ req[p].op = "update" /\ req[p].pc = "done"
        /\ model_dump_keys(req[p].payload) = {}
        /\ req[p].outcome = "InvalidRequest"
        /\ db[req[p].id] # None
        /\ cache[req[p].id] # Absent

\* C10, as claimed: an Update, Delete or Read that completes on an
\* identifier with no row in the store fails with NotFound, whatever its
\* payload, and leaves the store and the cache as they are.
C10_AbsentIsNotFound ==
    [][\A p \in Procs :
        Stepped(p) /\ req[p].op \in {"read", "update", "delete"}
                   /\ req[p].pc \in {"cache_get", "db_get"}
                   /\ db[req[p].id] = None
                   /\ req'[p].pc = "done"
            => /\ req'[p].outcome = "NotFound"
               /\ db' = db
               /\ cache' = cache]_vars

\* C10, amended: an Update with at least one field, a Delete, and a Read
\* that missed the cache fail with NotFound when the store holds no row for
\* the identifier, and leave the store and the cache as they are; an Update
\* with no field fails with InvalidRequest instead.
C10_AbsentAtStoreLookup ==
    [][\A p \in Procs :
        Stepped(p) /\ req[p].op \in {"read", "update", "delete"}
                   /\ req[p].pc = "db_get"
                   /\ db[req[p].id] = None
            => /\ req'[p].pc = "done"
               /\ IF req[p].op = "update"
                     /\ model_dump_keys(req[p].payload) = {}
                  THEN req'[p].status = 400
                       /\ req'[p].outcome = "InvalidRequest"
                  ELSE req'[p].status = 404
                       /\ req'[p].outcome = "NotFound"
               /\ db' = db
               /\ cache' = cache]_vars

\* C10's case: an Update with a field, of an identifier with no row and no
\* cache entry, has failed with NotFound.
C10_Witness ==
    \E p \in Procs :
        /\ req[p].op = "update" /\ req[p].pc = "done"
        /\ model_dump_keys(req[p].payload) # {}
        /\ req[p].outcome = "NotFound"
        /\ db[req[p].id] = None
        /\ cache[req[p].id] = Absent

\* C11 (partial update): the commit of a successful Update leaves a row
\* whose sent fields have the payload's values and whose other fields, the
\* id included, have the values the row had just before the commit; the
\* Update returns the row it persisted.
C11_PartialUpdate ==
    [][\A p \in Procs :
        Stepped(p) /\ req[p].op = "update" =>
            LET id == req[p].id
                payload == req[p].payload
            IN
            /\ req[p].pc = "commit" /\ req'[p].pc = "invalidate"
                => IF db[id] = None \/ db'[id] = None THEN FALSE
                   ELSE /\ \A f \in DOMAIN db[id] :
                              db'[id][f] = IF f \in DOMAIN payload.val
                                           THEN payload.val[f]
                                           ELSE db[id][f]
                        /\ req'[p].product = db'[id]
            /\ req[p].pc = "invalidate"
                => /\ req'[p].pc = "done"
                   /\ req'[p].outcome = "success"
                   /\ req'[p].body = ProductResponse(req[p].product)]_vars

\* C12 (NotPersisted): when the durable write of a Create, Update or Delete
\* fails, the operation ends there with a server error, the store is as it
\* was before the write, and the operation makes no cache call, so the cache
\* is as it was.
C12_NotPersisted ==
    [][\A p \in Procs :
        Stepped(p) /\ req[p].pc = "commit"
                   /\ (~aux'[p].call_ok \/ req'[p].outcome = "NotPersisted")
            => /\ req[p].op \in {"create", "update", "delete"}
               /\ req'[p].pc = "done"
               /\ req'[p].status = 500
               /\ req'[p].outcome = "NotPersisted"
               /\ req'[p].body = None
               /\ db' = db
               /\ cache' = cache]_vars

\* C12's case: the commit of an Update of a cached record has failed; the
\* row and the entry are still there.
C12_Witness ==
    \E p \in Procs :
        /\ req[p].op = "update" /\ req[p].pc = "done"
        /\ req[p].outcome = "NotPersisted"
        /\ ~aux[p].call_ok
        /\ model_dump_keys(req[p].payload) = {"price"}
        /\ req[p].payload.null = {}
        /\ db[req[p].id] # None /\ db[req[p].id].price = 10
        /\ HoldsRecord(cache[req[p].id])

\* C13 (Create): a successful Create writes its record under an identifier
\* the table has never held a row under, persists it in the step before it
\* responds, returns the persisted record with the payload's values, never
\* writes a cache entry, and leaves no entry under the new identifier.
C13_Create ==
    [][\A p \in Procs :
        Stepped(p) /\ req[p].op = "create" =>
            LET id == req[p].id
                payload == req[p].payload
            IN
            /\ req[p].pc = "commit" /\ req'[p].outcome # "NotPersisted"
                => /\ held[id] = {} /\ db[id] = None
                   /\ \A j \in Ids \ {id} : held[j] # {} => j \in used
                   /\ id \in used
                   /\ db'[id] = [id |-> id, name |-> payload.name,
                                 description |-> payload.description,
                                 price |-> payload.price,
                                 stock_quantity |-> payload.stock_quantity]
                   /\ req'[p].pc = "invalidate"
                   /\ req'[p].product = db'[id]
                   /\ cache' = cache
            /\ req'[p].pc = "done" /\ req'[p].outcome = "success"
                => /\ req[p].pc = "invalidate"
                   /\ req'[p].status = 201
                   /\ req'[p].body = ProductResponse(req[p].product)
                   /\ req[p].product \in held[id]
                   /\ db' = db
                   /\ cache'[id] = Absent
                   /\ \A j \in Ids \ {id} : cache'[j] = cache[j]]_vars

\* C13's case: a Create has returned its record, stored under an identifier
\* other than the one created before it, and its key has no cache entry.
C13_Witness ==
    \E p \in Procs :
        /\ req[p].op = "create" /\ req[p].pc = "done"
        /\ req[p].outcome = "success" /\ req[p].status = 201
        /\ db[req[p].id] # None
        /\ req[p].body = ProductResponse(db[req[p].id])
        /\ \E j \in Ids \ {req[p].id} : held[j] # {}
        /\ cache[req[p].id] = Absent

\* C14 (invalidate after persist): in every Update and Delete the cache call
\* is the step after the commit that succeeded and the step before the
\* response; the steps up to and including the commit make no cache call,
\* and the invalidation step makes no store write.
C14_InvalidateAfterPersist ==
    [][\A p \in Procs :
        Stepped(p) /\ req[p].op \in {"update", "delete"} =>
            LET id == req[p].id IN
            /\ req[p].pc \in {"db_get", "commit"} => cache' = cache
            /\ req[p].pc = "db_get" => req'[p].pc \in {"commit", "done"}
            /\ req'[p].pc = "invalidate"
                => /\ req[p].pc = "commit"
                   /\ aux'[p].call_ok
                   /\ db'[id] = IF req[p].op = "delete" THEN None
                                ELSE req'[p].product
            /\ req[p].pc = "commit" /\ req'[p].pc = "done"
                => req'[p].outcome = "NotPersisted" /\ db' = db
            /\ req[p].pc = "invalidate"
                => /\ db' = db
                   /\ req'[p].pc = "done" /\ req'[p].outcome = "success"
                   /\ cache'[id] = IF aux'[p].call_ok THEN Absent
                                   ELSE cache[id]
            /\ req'[p].pc = "done" /\ req'[p].outcome = "success"
                => req[p].pc = "invalidate"]_vars

\* C14's case: an Update has committed a change to a record that was cached,
\* then removed the entry, then returned.
C14_Witness ==
    \E p \in Procs :
        /\ req[p].op = "update" /\ req[p].pc = "done"
        /\ req[p].outcome = "success"
        /\ aux[p].call_ok
        /\ lastw[req[p].id].op = "update" /\ lastw[req[p].id].had_entry
        /\ lastw[req[p].id].body = req[p].body
        /\ db[req[p].id] = req[p].product
        /\ req[p].product.price = 12
        /\ cache[req[p].id] = Absent

\* C15 (invalidation survives cancellation): when an Update or Delete is
\* stopped after its commit and before its invalidation, an invalidation of
\* its identifier is eventually attempted.
C15_InvalidationSurvivesCancel ==
    \A i \in Ids : (i \in unswept) ~> (i \notin unswept)

\* A cache entry that holds a record other than the row the store holds now.
Stale(i) ==
    /\ HoldsRecord(cache[i])
    /\ IF db[i] = None THEN TRUE
       ELSE json_loads(cache[i].val) # ProductResponse(db[i])

\* C16 (staleness is bounded by the time to live): every entry is written
\* with the configured time to live, by a Read that missed, and no other
\* step gives an entry more time (a hit writes nothing); so, with time
\* passing, every entry that differs from the store disappears, and a Read
\* that finds no such entry returns the store's current row, or NotFound
\* when there is none.
C16_TTLBoundedStaleness ==
    /\ [][\A i \in Ids :
            cache'[i] # cache[i] /\ cache'[i] # Absent
                => IF \E p \in Procs : Stepped(p)
                   THEN /\ cache'[i].ttl = cache_ttl_seconds
                        /\ \E p \in Procs :
                               /\ Stepped(p) /\ req[p].id = i
                               /\ req[p].op = "read"
                               /\ req[p].pc = "cache_set"
                   ELSE /\ cache[i] # Absent
                        /\ cache'[i] = [cache[i] EXCEPT !.ttl = @ - 1]]_vars
    /\ [][\A p \in Procs :
            Stepped(p) /\ req[p].op = "read" /\ req'[p].pc = "done"
                       /\ ~Stale(req[p].id)
                => MatchesStore(db', req'[p])]_vars
    /\ \A i \in Ids : Stale(i) ~> (cache[i] = Absent)

\* C16's case: the entry a failed invalidation left behind has run out, and
\* a Read after that has returned the updated row and cached it.
C16_Witness ==
    \E p \in Procs :
        /\ ReadDone(p) /\ req[p].outcome = "success"
        /\ req[p].id \in expired
        /\ aux[p].source = "db"
        /\ lastw[req[p].id].op = "update"
        /\ req[p].body.price = 12
        /\ req[p].body = ProductResponse(db[req[p].id])
        /\ HoldsRecord(cache[req[p].id]) /\ ~Stale(req[p].id)

\* C17 (cache and store agree at quiescence): with a healthy cache and
\* requests served one at a time, whenever no request is in flight every
\* cache entry is the serialized current row of its identifier, and an
\* identifier without a row has no entry.
C17_AgreementAtQuiescence ==
    Quiet =>
        \A i \in Ids :
            IF cache[i] = Absent THEN TRUE
            ELSE /\ db[i] # None
                 /\ json_parses(cache[i].val)
                 /\ json_loads(cache[i].val) = ProductResponse(db[i])
                 /\ cache[i].val = model_dump_json(ProductResponse(db[i]))

\* C17's case: a record that was cached, then updated, then read again; the
\* entry now in the cache is the updated row.
C17_Witness ==
    /\ Quiet
    /\ \E i \in Ids :
        /\ lastw[i].op = "update" /\ lastw[i].had_entry
        /\ db[i] # None /\ db[i].price = 12
        /\ cache[i] # Absent
        /\ cache[i].val = model_dump_json(ProductResponse(db[i]))
        /\ cver[i] = dbver[i] /\ dbver[i] > 0

\* C18 (cache provenance): under concurrent requests and failing Redis
\* calls, every entry under an identifier is a serialized record with that
\* id whose content is a row the table has held under the identifier; and
\* an entry is written only by the cache_set step of a Read that missed and
\* loaded the row it writes.
C18_CacheProvenance ==
    /\ [](\A i \in Ids :
            IF cache[i] = Absent THEN TRUE
            ELSE /\ json_parses(cache[i].val)
                 /\ json_loads(cache[i].val).id = i
                 /\ \E row \in held[i] :
                        json_loads(cache[i].val) = ProductResponse(row)
                 /\ cache[i].ttl \in 1..cache_ttl_seconds)
    /\ [][\A i \in Ids :
            /\ cache'[i] # cache[i] /\ cache'[i] # Absent
            /\ IF cache[i] = Absent THEN TRUE
               ELSE cache'[i] # [cache[i] EXCEPT !.ttl = @ - 1]
            => \E p \in Procs :
                   /\ Stepped(p) /\ req[p].id = i
                   /\ req[p].op = "read" /\ req[p].pc = "cache_set"
                   /\ req[p].product \in held[i]
                   /\ cache'[i].val =
                          model_dump_json(ProductResponse(req[p].product))
                   /\ req'[p].body = json_loads(cache'[i].val)]_vars

\* C18's case: the cache holds, for a row that has been deleted, an entry
\* written by a Read that had loaded the row before the Delete committed;
\* no failed invalidation left it there.
C18_Witness ==
    \E i \in Ids :
        /\ i \in deleted /\ db[i] = None
        /\ i \notin leftover
        /\ HoldsRecord(cache[i])
        /\ json_loads(cache[i].val).id = i
        /\ \E row \in held[i] : json_loads(cache[i].val) = ProductResponse(row)

\* C19 (cross-identifier independence): under any interleaving, a step of a
\* Create, Read, Update or Delete on one identifier leaves the row and the
\* cache entry of every other identifier as they are.
C19_CrossIdIndependence ==
    [][\A p \in Procs :
        Stepped(p) =>
            \A b \in Ids \ {req[p].id} :
                /\ db'[b] = db[b]
                /\ cache'[b] = cache[b]
                /\ held'[b] = held[b]]_vars

\* C19's case: an Update of one identifier has changed its row and removed
\* its entry while a request on another identifier, whose row is cached,
\* is in flight.
C19_Witness ==
    \E p \in Procs, q \in Procs :
        /\ req[p].op = "update" /\ req[p].pc = "done"
        /\ req[p].outcome = "success"
        /\ db[req[p].id] # None /\ db[req[p].id].price = 12
        /\ InFlight(req[q]) /\ req[q].id # req[p].id
        /\ db[req[q].id] # None
        /\ HoldsRecord(cache[req[q].id])
        /\ ~Stale(req[q].id)

\* C20 (startup seeding is idempotent): a start adds the samples exactly
\* when the table has no row, and every start after the first leaves the
\* table, and so the number of rows, as the start before left it.
C20_SeedingIdempotent ==
    [][started' = started + 1 =>
        /\ count_products(table) = 0
            => /\ count_products(table') = Len(sample_products)
               /\ \A k \in DOMAIN sample_products :
                      \E u \in Uuids :
                          /\ table'[u] # None /\ table'[u].id = u
                          /\ table'[u].name = sample_products[k].name
                          /\ table'[u].price = sample_products[k].price
        /\ count_products(table) > 0 => table' = table
        /\ started >= 1
            => /\ count_products(table') = count_products(table)
               /\ table' = table]_vars

\* C20's case: the application has been started three times on a store that
\* was empty before the first start, and the table holds the three samples.
C20_Witness ==
    /\ started = MaxStartups /\ started >= 2
    /\ count_products(table) = Len(sample_products)
    /\ \A u \in Uuids :
           table[u] # None =>
               \E k \in DOMAIN sample_products :
                   table[u].name = sample_products[k].name

====
